---- MODULE Spec2Model ----
(***************************************************************************)
(* Model of the maize irrigation decision engine (class                    *)
(* MaizeSmartIrrigation) in its two copies: logic_core.py ("local") and    *)
(* logic_core_firebase.py ("firebase").                                    *)
(*                                                                         *)
(* Units.  Python floats are modelled in decimal fixed point:              *)
(*   days, root depth (mm)             : integers                          *)
(*   temperatures, moisture, targets   : hundredths (centi-degC, centi-%)  *)
(*   Target_Moisture as emitted        : tenths of a percent (round(.,1))  *)
(*   ET0 and Water_Required_mm emitted : hundredths (round(.,2))           *)
(*   water_mm before rounding          : millionths of a mm                *)
(* A CSV cell is a sequence of lexemes (strings): maximal digit runs such  *)
(* as "14", the delimiter "-", the suffixes "%" and "°C", and junk "x".    *)
(***************************************************************************)
EXTENDS Integers, Sequences, FiniteSets, TLC

\* ------------------------------------------------------------------ bounds
MaxRows == 2
NumCycles == 2

\* --------------------------------------------------------- program constants
SOIL_FC == 32
SOIL_WP == 16
\* sin and cos of math.radians(LATITUDE), LATITUDE = 26.9, in 1/10^8
SinLat == 45243471
CosLat == 89179753

\* ------------------------------------------------------------ parsing (CSV)
\* float(s) on a single lexeme: the numeric literals float() accepts
NumVal ==
  [s \in {"0", "10", "14", "15", "18", "20", "28", "30", "40", "50", "55",
          "60", "65", "80", "100", "300", "500", "-100"} |->
     CASE s = "0" -> 0 [] s = "10" -> 10 [] s = "14" -> 14 [] s = "15" -> 15
       [] s = "18" -> 18 [] s = "20" -> 20 [] s = "28" -> 28 [] s = "30" -> 30
       [] s = "40" -> 40 [] s = "50" -> 50 [] s = "55" -> 55 [] s = "60" -> 60
       [] s = "65" -> 65 [] s = "80" -> 80 [] s = "100" -> 100
       [] s = "300" -> 300 [] s = "500" -> 500 [] s = "-100" -> 0 - 100]

\* float(part) succeeds iff the part is exactly one numeric lexeme
IsFloat(part) == Len(part) = 1 /\ part[1] \in DOMAIN NumVal

ToFloat(part) == NumVal[part[1]]

\* str.replace(sym, ''): every occurrence of the lexeme is removed
Replace(tok, sym) == SelectSeq(tok, LAMBDA c : c # sym)

\* str.split('-'): the parts between delimiters, empty parts included
RECURSIVE Split(_)
Split(tok) ==
  IF tok = <<>> THEN << <<>> >>
  ELSE LET rest == Split(Tail(tok)) IN
       IF Head(tok) = "-" THEN << <<>> >> \o rest
       ELSE << <<Head(tok)>> \o rest[1] >> \o Tail(rest)

\* a, b = map(float, s.split('-')): ValueError unless exactly two floats
UnpackTwoFloats(tok) ==
  LET parts == Split(tok) IN
  IF Len(parts) = 2 /\ IsFloat(parts[1]) /\ IsFloat(parts[2])
  THEN [err |-> "none", a |-> ToFloat(parts[1]), b |-> ToFloat(parts[2])]
  ELSE [err |-> "ValueError", a |-> 0, b |-> 0]

\* float(t_str.split('-')[1]): only the element at index 1 is looked at
SecondFloat(tok) ==
  LET parts == Split(tok) IN
  IF Len(parts) < 2 THEN [err |-> "IndexError", v |-> 0]
  ELSE IF ~IsFloat(parts[2]) THEN [err |-> "ValueError", v |-> 0]
  ELSE [err |-> "none", v |-> ToFloat(parts[2])]

\* mutant: the lower bound of the temperature range kept as the reference
ParseRowLowerTemp(row) ==
  LET d == UnpackTwoFloats(row.Period_Days)
      t == UnpackTwoFloats(Replace(row.Temp_Range_C, "°C"))
      m == UnpackTwoFloats(Replace(row.Moisture_Target_Range, "%"))
      r == <<row.Root_Depth_mm>>
  IN  IF d.err # "none" THEN [err |-> d.err, stage |-> <<>>]
      ELSE IF t.err # "none" THEN [err |-> t.err, stage |-> <<>>]
      ELSE IF m.err # "none" THEN [err |-> m.err, stage |-> <<>>]
      ELSE IF ~IsFloat(r) THEN [err |-> "ValueError", stage |-> <<>>]
      ELSE [err |-> "none",
            stage |-> << [start |-> d.a, end |-> d.b,
                          stage |-> row.Stage,
                          theta_base |-> ((m.a + m.b) * 100) \div 2,
                          temp_max_ref |-> t.a * 100,
                          root_depth |-> ToFloat(r)] >>]

\* the body of the for loop of _load_schedule for one row
ParseRow(row) ==
  LET d == UnpackTwoFloats(row.Period_Days)
      t == SecondFloat(Replace(row.Temp_Range_C, "°C"))
      m == UnpackTwoFloats(Replace(row.Moisture_Target_Range, "%"))
      r == <<row.Root_Depth_mm>>
  IN  IF d.err # "none" THEN [err |-> d.err, stage |-> <<>>]
      ELSE IF t.err # "none" THEN [err |-> t.err, stage |-> <<>>]
      ELSE IF m.err # "none" THEN [err |-> m.err, stage |-> <<>>]
      ELSE IF ~IsFloat(r) THEN [err |-> "ValueError", stage |-> <<>>]
      ELSE [err |-> "none",
            stage |-> << [start |-> d.a, end |-> d.b,
                          stage |-> row.Stage,
                          theta_base |-> ((m.a + m.b) * 100) \div 2,
                          temp_max_ref |-> t.v * 100,
                          root_depth |-> ToFloat(r)] >>]

\* the loop over df.iterrows(): rows in file order, first exception wins
RECURSIVE ProcessRows(_)
ProcessRows(rows) ==
  IF rows = <<>> THEN [err |-> "none", table |-> <<>>]
  ELSE LET p == ParseRow(Head(rows)) IN
       IF p.err # "none" THEN [err |-> p.err, table |-> <<>>]
       ELSE LET rest == ProcessRows(Tail(rows)) IN
            IF rest.err # "none" THEN rest
            ELSE [err |-> "none", table |-> p.stage \o rest.table]

\* logic_core._load_schedule: any exception is printed and an empty
\* DataFrame is returned in place of the table
LoadScheduleLocal(rows) ==
  LET p == ProcessRows(rows) IN
  [raised |-> "none", printed |-> p.err, table |-> p.table]

\* logic_core_firebase._load_schedule: no try/except, the exception leaves
\* the constructor
LoadScheduleFirebase(rows) ==
  LET p == ProcessRows(rows) IN
  [raised |-> p.err, printed |-> "none", table |-> p.table]

\* --------------------------------------------- fixed-point float arithmetic
\* floor(a * b / 10^8) without leaving 32 bits
Mul8(a, b) ==
  LET ah == a \div 10000  al == a % 10000
      bh == b \div 10000  bl == b % 10000
  IN  ah * bh + ((ah * bl + al * bh) + (al * bl) \div 10000) \div 10000

\* floor(a * b / 10^4) without leaving 32 bits (b below 2 * 10^5)
MulDiv4(a, b) == (a \div 10000) * b + ((a % 10000) * b) \div 10000

RECURSIVE SqrtSearch(_, _, _)
SqrtSearch(n, lo, hi) ==
  IF lo = hi THEN lo
  ELSE LET mid == (lo + hi + 1) \div 2 IN
       IF mid * mid <= n THEN SqrtSearch(n, mid, hi)
       ELSE SqrtSearch(n, lo, mid - 1)

\* floor of the square root
ISqrt(n) == SqrtSearch(n, 0, 46340)

\* Python round(): n/d to the nearest integer, ties to even
RoundHalfEven(n, d) ==
  LET q == n \div d
      r == n % d
  IN  IF 2 * r > d \/ (2 * r = d /\ q % 2 = 1) THEN q + 1 ELSE q

Max(a, b) == IF b > a THEN b ELSE a
Min(a, b) == IF b < a THEN b ELSE a

\* -------------------------------------------------- estimate_solar_radiation
\* Values of the transcendental functions of lines 46-52 for the days of the
\* year the model's clock takes, in 1/10^8:
\*   cosYear = cos(2 pi doy / 365)        sinDecl, cosDecl = sin, cos of the
\*   declination 0.409 sin(2 pi doy/365 - 1.39)
\*   ws = acos(-tan(lat) tan(declination))        sinWs = sin(ws)
Trig(doy) ==
  CASE doy = 15 ->
         [cosYear |-> 96684781, sinDecl |-> 0 - 36181664,
          cosDecl |-> 93224928, ws |-> 137260113, sinWs |-> 98042354]
    [] doy = 172 ->
         [cosYear |-> 0 - 98370929, sinDecl |-> 39769201,
          cosDecl |-> 91751897, ws |-> 179250633, sinWs |-> 97552285]

\* dr = 1 + 0.033 * cos(2 pi doy / 365), in 1/10^8
InverseDistance(doy) ==
  LET c == Trig(doy).cosYear IN
  100000000 + (c \div 1000) * 33 + ((c % 1000) * 33) \div 1000

\* ra of lines 50-53, in 1/10^7 MJ; (24 * 60 / pi) * 0.0820 = 37.5860314
ExtraterrestrialRadiation(doy) ==
  LET t == Trig(doy)
      inner == Mul8(Mul8(t.ws, SinLat), t.sinDecl)
               + Mul8(Mul8(CosLat, t.cosDecl), t.sinWs)
  IN  Mul8(375860314, Mul8(InverseDistance(doy), inner))

\* mutant: the forecast pair reordered when max is below min
estimate_solar_radiation_reordered(doy, t_max, t_min) ==
  LET hi == Max(t_max, t_min)
      lo == Min(t_max, t_min)
      x == MulDiv4(ExtraterrestrialRadiation(doy), 23)
      y == MulDiv4(x, hi + lo + 3560)
      s == ISqrt((hi - lo) * 1000000)
  IN  [err |-> "none", et0 |-> RoundHalfEven(MulDiv4(y, s), 2000)]

\* mutant: the sum of the forecast pair used where its mean belongs
estimate_solar_radiation_sum(doy, t_max, t_min) ==
  IF t_max - t_min < 0 THEN [err |-> "ValueError", et0 |-> 0]
  ELSE LET x == MulDiv4(ExtraterrestrialRadiation(doy), 23)
           y == MulDiv4(x, 2 * (t_max + t_min) + 3560)
           s == ISqrt((t_max - t_min) * 1000000)
       IN  [err |-> "none", et0 |-> RoundHalfEven(MulDiv4(y, s), 2000)]

\* estimate_solar_radiation(day_of_year, t_max, t_min); temperatures in
\* hundredths, result in hundredths of mm/day.  math.sqrt of a negative
\* number raises ValueError.
estimate_solar_radiation(doy, t_max, t_min) ==
  IF t_max - t_min < 0 THEN [err |-> "ValueError", et0 |-> 0]
  ELSE LET x == MulDiv4(ExtraterrestrialRadiation(doy), 23)
           y == MulDiv4(x, t_max + t_min + 3560)
           s == ISqrt((t_max - t_min) * 1000000)
       IN  [err |-> "none", et0 |-> RoundHalfEven(MulDiv4(y, s), 2000)]

\* ------------------------------------------------------ calculate_3hr_update
\* mutant: the end of the interval taken as inclusive
MatchesEndInclusive(s, day) == s.start <= day /\ s.end >= day

\* the boolean mask of lines 66-67
Matches(s, day) == s.start <= day /\ s.end > day

\* mutant: a day no stage covers falls back to the last stage of the table
LookupWithDefault(sched, day) ==
  IF sched = <<>> THEN [err |-> "KeyError", stage |-> <<>>]
  ELSE LET sel == SelectSeq(sched, LAMBDA s : Matches(s, day)) IN
       IF sel = <<>> THEN [err |-> "none", stage |-> <<sched[Len(sched)]>>]
       ELSE [err |-> "none", stage |-> <<sel[1]>>]

\* self.schedule[mask].iloc[0]: a DataFrame without rows has no columns
\* (KeyError on 'start'); .iloc[0] of an empty selection is an IndexError
Lookup(sched, day) ==
  IF sched = <<>> THEN [err |-> "KeyError", stage |-> <<>>]
  ELSE LET sel == SelectSeq(sched, LAMBDA s : Matches(s, day)) IN
       IF sel = <<>> THEN [err |-> "IndexError", stage |-> <<>>]
       ELSE [err |-> "none", stage |-> <<sel[1]>>]

\* lines 73: max(0, t_current - temp_max_ref)
InstantOvershoot(sd, t_current) == Max(0, t_current - sd.temp_max_ref)

\* mutant: the threshold of line 78 taken as inclusive
EtBufferInclusive(et0) == IF et0 >= 550 THEN 500 ELSE 0

\* line 78
EtBuffer(et0) == IF et0 > 550 THEN 500 ELSE 0

\* line 80
RawTarget(sd, t_current, et0) ==
  sd.theta_base + InstantOvershoot(sd, t_current) * 2 + EtBuffer(et0)

\* mutant: the cap of line 81 left out
FinalTargetNoCap(sd, t_current, et0) == RawTarget(sd, t_current, et0)

\* line 81
FinalTarget(sd, t_current, et0) == Min(9000, RawTarget(sd, t_current, et0))

\* mutant: the deficit formula applied without the comparison of line 83
WaterMmNoGuard(sd, final_target, moisture_current) ==
  (final_target - moisture_current) * (SOIL_FC - SOIL_WP) * sd.root_depth

\* mutant: the field capacity used where the available water range belongs
WaterMmFieldCapacity(sd, final_target, moisture_current) ==
  IF moisture_current < final_target
  THEN (final_target - moisture_current) * SOIL_FC * sd.root_depth
  ELSE 0

\* lines 83-89, in millionths of a mm
WaterMm(sd, final_target, moisture_current) ==
  IF moisture_current < final_target
  THEN (final_target - moisture_current) * (SOIL_FC - SOIL_WP) * sd.root_depth
  ELSE 0

\* the returned dict; the firebase copy returns four of the seven entries
ResultDict(v, sd, t_current, et0, final_target, moisture_current, water_mm) ==
  IF v = "local"
  THEN [Stage |-> sd.stage,
        Root_Depth |-> sd.root_depth,
        Condition |-> IF InstantOvershoot(sd, t_current) > 0
                      THEN "Heat Stress" ELSE "Normal",
        Solar_Demand_ET0 |-> et0,
        Target_Moisture |-> RoundHalfEven(final_target, 10),
        Current_Moisture |-> moisture_current,
        Water_Required_mm |-> RoundHalfEven(water_mm, 10000)]
  ELSE [Stage |-> sd.stage,
        Target_Moisture |-> RoundHalfEven(final_target, 10),
        Current_Moisture |-> moisture_current,
        Water_Required_mm |-> RoundHalfEven(water_mm, 10000)]

\* the part of calculate_3hr_update after the stage row has been selected,
\* with the day of the year read from the wall clock
DecideForStage(v, sd, a, doy) ==
  LET est == estimate_solar_radiation(doy, a.t_max_forecast, a.t_min_forecast)
  IN  IF est.err # "none" THEN [err |-> est.err, res |-> <<>>]
      ELSE LET ft == FinalTarget(sd, a.t_current, est.et0)
               w  == WaterMm(sd, ft, a.moisture_current)
           IN  [err |-> "none",
                res |-> <<ResultDict(v, sd, a.t_current, est.et0, ft,
                                     a.moisture_current, w)>>]

\* one whole call; an exception leaves the call without a return value
calculate_3hr_update(v, sched, a, doy) ==
  LET lk == Lookup(sched, a.day_after_sowing) IN
  IF lk.err # "none" THEN [err |-> lk.err, res |-> <<>>]
  ELSE DecideForStage(v, lk.stage[1], a, doy)

\* ------------------------------------------------------------------ inputs
\* rows of maize_data.csv as pandas hands them over, one record per row
RowSilking ==
  [Period_Days |-> <<"14", "-", "30">>, Stage |-> "Silking",
   Temp_Range_C |-> <<"18", "-", "30", "°C">>,
   Moisture_Target_Range |-> <<"60", "-", "80", "%">>,
   Root_Depth_mm |-> "300"]

\* overlaps the row above; lower temperature bound unreadable; no roots
RowVegetative ==
  [Period_Days |-> <<"10", "-", "20">>, Stage |-> "Vegetative",
   Temp_Range_C |-> <<"x", "-", "28", "°C">>,
   Moisture_Target_Range |-> <<"55", "-", "65", "%">>,
   Root_Depth_mm |-> "0"]

\* leaves days 30..39 uncovered; negative root depth
RowMaturity ==
  [Period_Days |-> <<"40", "-", "50">>, Stage |-> "Maturity",
   Temp_Range_C |-> <<"15", "-", "28", "°C">>,
   Moisture_Target_Range |-> <<"60", "-", "80", "%">>,
   Root_Depth_mm |-> "-100"]

\* day range that is no range
RowBadDays ==
  [Period_Days |-> <<"x">>, Stage |-> "BadDays",
   Temp_Range_C |-> <<"10", "-", "18", "°C">>,
   Moisture_Target_Range |-> <<"50", "-", "60", "%">>,
   Root_Depth_mm |-> "100"]

\* day_start >= day_end
RowInverted ==
  [Period_Days |-> <<"30", "-", "14">>, Stage |-> "Inverted",
   Temp_Range_C |-> <<"18", "-", "30", "°C">>,
   Moisture_Target_Range |-> <<"60", "-", "80", "%">>,
   Root_Depth_mm |-> "300"]

\* temperature range with a single bound
RowOneTemp ==
  [Period_Days |-> <<"0", "-", "14">>, Stage |-> "OneTemp",
   Temp_Range_C |-> <<"30", "°C">>,
   Moisture_Target_Range |-> <<"50", "-", "60", "%">>,
   Root_Depth_mm |-> "100"]

Rows == {RowSilking, RowVegetative, RowMaturity,
         RowBadDays, RowInverted, RowOneTemp}

\* the files: every sequence of at most MaxRows rows
Files == UNION {[1..n -> Rows] : n \in 0..MaxRows}

Variants == {"local", "firebase"}

\* the days of the year the wall clock shows
DaysOfYear == {15, 172}

\* arguments of calculate_3hr_update
Days == {14, 35, 45}
CurrentTemps == {2500, 3002, 4500}
Forecasts == {<<2500, 2200>>, <<2950, 2400>>, <<2200, 3500>>}
Moistures == {6999, 7002, 9500}

Readings ==
  {[day_after_sowing |-> d, t_current |-> t, t_max_forecast |-> f[1],
    t_min_forecast |-> f[2], moisture_current |-> m] :
     d \in Days, t \in CurrentTemps, f \in Forecasts, m \in Moistures}

NoReading ==
  [day_after_sowing |-> 0, t_current |-> 0, t_max_forecast |-> 0,
   t_min_forecast |-> 0, moisture_current |-> 0]

NoOutcome == [err |-> "none", res |-> <<>>]

NoCall == [called |-> FALSE, args |-> NoReading, doy |-> 0, out |-> NoOutcome]

\* ------------------------------------------------------------------- state
VARIABLES
  variant,    \* which copy of the engine runs
  entries,    \* the rows of the CSV file
  phase,      \* "start", "ready" (engine constructed) or "aborted"
  schedule,   \* self.schedule
  loadErr,    \* the exception raised inside _load_schedule, "none" if none
  clock,      \* day of the year of datetime.datetime.now()
  last,       \* the most recent call of calculate_3hr_update and its outcome
  cyc,        \* the calls of calculate_3hr_update in progress, one per caller
  est,        \* the most recent direct call of estimate_solar_radiation
  main        \* the run of the __main__ block of logic_core_firebase.py

vars == <<variant, entries, phase, schedule, loadErr, clock, last, cyc, est, main>>

Cycles == 1..NumCycles

\* the frame of one call: its position, arguments, locals and return value
NoCycle ==
  [pc |-> "idle", args |-> NoReading, stage |-> <<>>, doy |-> 0,
   out |-> NoOutcome]

\* no direct call of the estimator yet
NoEstimate ==
  [called |-> FALSE, doy |-> 0, t_max |-> 0, t_min |-> 0,
   out |-> [err |-> "none", et0 |-> 0]]

\* the content of Niranj/FarmData/Node1 as ref.get() returns it
NoData ==
  [exists |-> FALSE, has_temp |-> FALSE, SoilTemperature |-> 0,
   has_moist |-> FALSE, SoilMoisture |-> 0]

\* the __main__ block not running
NoMain ==
  [pc |-> "off", node1 |-> NoData, soil_temp |-> 0, soil_moist |-> 0,
   written |-> <<>>]

Init ==
  /\ variant \in Variants
  /\ entries \in Files
  /\ phase = "start"
  /\ schedule = <<>>
  /\ loadErr = "none"
  /\ clock \in DaysOfYear
  /\ last = NoCall
  /\ cyc = [i \in Cycles |-> NoCycle]
  /\ est = NoEstimate
  /\ main = NoMain

\* MaizeSmartIrrigation('maize_data.csv') in logic_core.py
ConstructLocal ==
  /\ phase = "start"
  /\ variant = "local"
  /\ LET l == LoadScheduleLocal(entries) IN
       /\ schedule' = l.table
       /\ loadErr' = l.printed
       /\ phase' = "ready"
  /\ UNCHANGED <<variant, entries, clock, last, cyc, est, main>>

\* MaizeSmartIrrigation("maize_data.csv") in logic_core_firebase.py
ConstructFirebase ==
  /\ phase = "start"
  /\ variant = "firebase"
  /\ LET l == LoadScheduleFirebase(entries) IN
       /\ schedule' = l.table
       /\ loadErr' = l.raised
       /\ phase' = IF l.raised = "none" THEN "ready" ELSE "aborted"
  /\ UNCHANGED <<variant, entries, clock, last, cyc, est, main>>

\* the date changes between two calls
Tick ==
  /\ \E d \in DaysOfYear \ {clock} : clock' = d
  /\ UNCHANGED <<variant, entries, phase, schedule, loadErr, last, cyc, est, main>>

\* mutant: the selected row is taken out of self.schedule
Calculate3hrUpdateConsuming ==
  /\ phase = "ready"
  /\ \E a \in Readings :
       /\ last' = [called |-> TRUE, args |-> a, doy |-> clock,
                   out |-> calculate_3hr_update(variant, schedule, a, clock)]
       /\ schedule' = SelectSeq(schedule,
                                LAMBDA s : ~Matches(s, a.day_after_sowing))
  /\ UNCHANGED <<variant, entries, phase, loadErr, clock, cyc, est, main>>

\* one call of calculate_3hr_update by the caller
Calculate3hrUpdate ==
  /\ phase = "ready"
  /\ \E a \in Readings :
       last' = [called |-> TRUE, args |-> a, doy |-> clock,
                out |-> calculate_3hr_update(variant, schedule, a, clock)]
  /\ UNCHANGED <<variant, entries, phase, schedule, loadErr, clock, cyc, est, main>>

Next == ConstructLocal \/ ConstructFirebase \/ Tick \/ Calculate3hrUpdate

Spec == Init /\ [][Next]_vars

\* ------------------------------------------ direct calls of the estimator
\* forecast temperatures handed to estimate_solar_radiation
EstTemps == {2200, 2400, 2500, 2950, 3000, 3500}

InitEst ==
  /\ variant \in Variants
  /\ entries = <<>>
  /\ phase = "start"
  /\ schedule = <<>>
  /\ loadErr = "none"
  /\ clock \in DaysOfYear
  /\ last = NoCall
  /\ cyc = [i \in Cycles |-> NoCycle]
  /\ est = NoEstimate
  /\ main = NoMain

\* estimate_solar_radiation(day_of_year, t_max, t_min) called on its own
Estimate ==
  /\ \E hi \in EstTemps, lo \in EstTemps :
       est' = [called |-> TRUE, doy |-> clock, t_max |-> hi, t_min |-> lo,
               out |-> estimate_solar_radiation(clock, hi, lo)]
  /\ UNCHANGED <<variant, entries, phase, schedule, loadErr, clock, last,
                 cyc, main>>

NextEst == Tick \/ Estimate

SpecEst == InitEst /\ [][NextEst]_vars

\* ------------------------------- the __main__ block of logic_core_firebase
\* a row whose stage covers day 115, the day the block asks for
RowLate ==
  [Period_Days |-> <<"100", "-", "300">>, Stage |-> "Silking",
   Temp_Range_C |-> <<"18", "-", "30", "°C">>,
   Moisture_Target_Range |-> <<"60", "-", "80", "%">>,
   Root_Depth_mm |-> "300"]

MainFiles == {<<RowLate>>, <<RowSilking, RowLate>>, <<RowSilking, RowMaturity>>,
              <<RowBadDays>>}

\* what the database holds at Niranj/FarmData/Node1: nothing, or a dict in
\* which either key may be missing
Node1Values ==
  {NoData} \cup
  {[exists |-> TRUE, has_temp |-> t # 0, SoilTemperature |-> t,
    has_moist |-> m # 0, SoilMoisture |-> m] :
     t \in CurrentTemps \cup {0}, m \in Moistures \cup {0}}

InitMain ==
  /\ variant = "firebase"
  /\ entries \in MainFiles
  /\ phase = "start"
  /\ schedule = <<>>
  /\ loadErr = "none"
  /\ clock \in DaysOfYear
  /\ last = NoCall
  /\ cyc = [i \in Cycles |-> NoCycle]
  /\ est = NoEstimate
  /\ main \in {[NoMain EXCEPT !.pc = "read", !.node1 = n] : n \in Node1Values}

\* mutant: a missing Node1 treated like a dict without keys
MainReadNode1Defaults ==
  /\ main.pc = "read"
  /\ main' = [main EXCEPT
                !.pc = "construct",
                !.soil_temp = IF main.node1.exists /\ main.node1.has_temp
                              THEN main.node1.SoilTemperature ELSE 0,
                !.soil_moist = IF main.node1.exists /\ main.node1.has_moist
                               THEN main.node1.SoilMoisture ELSE 0]
  /\ UNCHANGED <<variant, entries, phase, schedule, loadErr, clock, last,
                 cyc, est>>

\* read_node1_data(): ref.get() of None raises; a missing key reads as 0
MainReadNode1 ==
  /\ main.pc = "read"
  /\ main' = IF ~main.node1.exists
             THEN [main EXCEPT !.pc = "failed"]
             ELSE [main EXCEPT
                     !.pc = "construct",
                     !.soil_temp = IF main.node1.has_temp
                                   THEN main.node1.SoilTemperature ELSE 0,
                     !.soil_moist = IF main.node1.has_moist
                                    THEN main.node1.SoilMoisture ELSE 0]
  /\ UNCHANGED <<variant, entries, phase, schedule, loadErr, clock, last,
                 cyc, est>>

\* irrigation = MaizeSmartIrrigation("maize_data.csv")
MainConstruct ==
  /\ main.pc = "construct"
  /\ LET l == LoadScheduleFirebase(entries) IN
       /\ schedule' = l.table
       /\ loadErr' = l.raised
       /\ phase' = IF l.raised = "none" THEN "ready" ELSE "aborted"
       /\ main' = [main EXCEPT
                     !.pc = IF l.raised = "none" THEN "calculate" ELSE "failed"]
  /\ UNCHANGED <<variant, entries, clock, last, cyc, est>>

\* result = irrigation.calculate_3hr_update(115, soil_temp, 35, 22, soil_moist)
MainCalculate ==
  /\ main.pc = "calculate"
  /\ LET a == [day_after_sowing |-> 115, t_current |-> main.soil_temp,
               t_max_forecast |-> 3500, t_min_forecast |-> 2200,
               moisture_current |-> main.soil_moist]
         o == calculate_3hr_update(variant, schedule, a, clock)
     IN  /\ last' = [called |-> TRUE, args |-> a, doy |-> clock, out |-> o]
         /\ main' = [main EXCEPT
                       !.pc = IF o.err = "none" THEN "write" ELSE "failed"]
  /\ UNCHANGED <<variant, entries, phase, schedule, loadErr, clock, cyc, est>>

\* write_expected_moisture(result["Target_Moisture"])
MainWrite ==
  /\ main.pc = "write"
  /\ main' = [main EXCEPT
                !.pc = "done",
                !.written = Append(@, last.out.res[1].Target_Moisture)]
  /\ UNCHANGED <<variant, entries, phase, schedule, loadErr, clock, last,
                 cyc, est>>

NextMain ==
  Tick \/ MainReadNode1 \/ MainConstruct \/ MainCalculate \/ MainWrite

SpecMain == InitMain /\ [][NextMain]_vars

\* ------------------------------------------- concurrent calls on one engine
\* the files and readings of the concurrent runs
ConcFiles == {<<RowSilking, RowMaturity>>, <<RowVegetative, RowSilking>>,
              <<RowBadDays>>}

ConcReadings ==
  {a \in Readings : a.t_current = 3002 /\ a.moisture_current = 6999}

InitConc ==
  /\ variant \in Variants
  /\ entries \in ConcFiles
  /\ phase = "start"
  /\ schedule = <<>>
  /\ loadErr = "none"
  /\ clock \in DaysOfYear
  /\ last = NoCall
  /\ cyc = [i \in Cycles |-> NoCycle]
  /\ est = NoEstimate
  /\ main = NoMain

\* a caller enters calculate_3hr_update with its own arguments
Call(i) ==
  /\ phase = "ready"
  /\ cyc[i].pc = "idle"
  /\ \E a \in ConcReadings :
       cyc' = [cyc EXCEPT ![i] = [NoCycle EXCEPT !.pc = "lookup", !.args = a]]
  /\ UNCHANGED <<variant, entries, phase, schedule, loadErr, clock, last, est, main>>

\* mutant: the selected row kept in an attribute of the engine, which every
\* call in progress then reads
LookupStageShared(i) ==
  /\ cyc[i].pc = "lookup"
  /\ LET lk == Lookup(schedule, cyc[i].args.day_after_sowing) IN
       cyc' = [j \in Cycles |->
                 IF j = i
                 THEN IF lk.err # "none"
                      THEN [cyc[i] EXCEPT !.pc = "done",
                                          !.out = [err |-> lk.err, res |-> <<>>]]
                      ELSE [cyc[i] EXCEPT !.pc = "decide", !.stage = lk.stage]
                 ELSE IF cyc[j].pc = "decide" /\ lk.err = "none"
                      THEN [cyc[j] EXCEPT !.stage = lk.stage]
                      ELSE cyc[j]]
  /\ UNCHANGED <<variant, entries, phase, schedule, loadErr, clock, last, est, main>>

\* lines 65-68: the stage row is read from self.schedule into a local
LookupStage(i) ==
  /\ cyc[i].pc = "lookup"
  /\ LET lk == Lookup(schedule, cyc[i].args.day_after_sowing) IN
       cyc' = [cyc EXCEPT ![i] =
                 IF lk.err # "none"
                 THEN [@ EXCEPT !.pc = "done",
                                !.out = [err |-> lk.err, res |-> <<>>]]
                 ELSE [@ EXCEPT !.pc = "decide", !.stage = lk.stage]]
  /\ UNCHANGED <<variant, entries, phase, schedule, loadErr, clock, last, est, main>>

\* lines 70-99: the clock is read and the result computed from the locals
Decide(i) ==
  /\ cyc[i].pc = "decide"
  /\ cyc' = [cyc EXCEPT ![i] =
               [@ EXCEPT !.pc = "done", !.doy = clock,
                         !.out = DecideForStage(variant, cyc[i].stage[1],
                                                cyc[i].args, clock)]]
  /\ UNCHANGED <<variant, entries, phase, schedule, loadErr, clock, last, est, main>>

\* the caller takes the return value or the exception; the frame is gone
Return(i) ==
  /\ cyc[i].pc = "done"
  /\ cyc' = [cyc EXCEPT ![i] = NoCycle]
  /\ UNCHANGED <<variant, entries, phase, schedule, loadErr, clock, last, est, main>>

NextConc ==
  \/ ConstructLocal
  \/ ConstructFirebase
  \/ Tick
  \/ \E i \in Cycles : Call(i)
  \/ \E i \in Cycles : LookupStage(i)
  \/ \E i \in Cycles : Decide(i)
  \/ \E i \in Cycles : Return(i)

SpecConc == InitConc /\ [][NextConc]_vars

\* ================================================================== claims
\* the indexes of the stages whose interval [start, end) contains the day
Covering(sched, day) ==
  {i \in DOMAIN sched : sched[i].start <= day /\ day < sched[i].end}

\* the first of a non-empty set of indexes
FirstOf(I) == CHOOSE i \in I : \A j \in I : i <= j

\* no two stages of the table cover a common day
NonOverlapping(sched) ==
  \A i, j \in DOMAIN sched :
    i # j => \/ sched[i].start >= sched[i].end
             \/ sched[j].start >= sched[j].end
             \/ sched[i].end <= sched[j].start
             \/ sched[j].end <= sched[i].start

HasResult == last.called /\ last.out.res # <<>>

LastStage == Lookup(schedule, last.args.day_after_sowing).stage[1]

\* C1 (as stated): for every table and day the lookup returns stage S if and
\* only if S.day_start <= d < S.day_end, and at most one stage satisfies it.
C1_LookupIffCovers ==
  \A d \in 0..50 :
    LET lk == Lookup(schedule, d) IN
    /\ Cardinality(Covering(schedule, d)) <= 1
    /\ \A i \in DOMAIN schedule :
         (lk.err = "none" /\ lk.stage[1] = schedule[i])
           <=> i \in Covering(schedule, d)

\* C1 (amended): the lookup returns the first stage, in table order, whose
\* interval [start, end) contains the day, and fails exactly when there is
\* none; so a returned stage always contains the day, lookup(S.end) never
\* returns S, and on a table without overlaps the stage returned is S if and
\* only if S contains the day.  The stage of an emitted result is that stage.
C1_LookupFirstCovering ==
  /\ \A d \in 0..50 :
       LET lk == Lookup(schedule, d)
           C == Covering(schedule, d)
       IN  /\ (lk.err = "none") <=> (C # {})
           /\ C # {} => lk.stage[1] = schedule[FirstOf(C)]
           /\ NonOverlapping(schedule) =>
                \A i \in DOMAIN schedule :
                  (lk.err = "none" /\ lk.stage[1] = schedule[i]) <=> i \in C
  /\ \A i \in DOMAIN schedule :
       LET lk == Lookup(schedule, schedule[i].end) IN
       ~(lk.err = "none" /\ lk.stage[1] = schedule[i])
  /\ HasResult =>
       last.out.res[1].Stage =
         schedule[FirstOf(Covering(schedule, last.args.day_after_sowing))].stage

\* a result was produced for a day that two different stages cover
C1_Witness ==
  /\ HasResult
  /\ Cardinality(Covering(schedule, last.args.day_after_sowing)) = 2
  /\ schedule[1].stage # schedule[2].stage
  /\ last.out.res[1].Stage = schedule[1].stage

\* C2: when no stage interval contains day_after_sowing the call ends in the
\* lookup's exception (the code's UndefinedStageError: IndexError from
\* .iloc[0], KeyError on a table without columns) and produces no result.
C2_UncoveredDayRaises ==
  (last.called /\ Covering(schedule, last.args.day_after_sowing) = {}) =>
     /\ last.out.res = <<>>
     /\ last.out.err \in {"IndexError", "KeyError"}

\* a call for a day in the gap between two stages of the table
C2_Witness ==
  /\ last.called
  /\ last.out.err = "IndexError"
  /\ \E i, j \in DOMAIN schedule :
       /\ schedule[i].start < schedule[i].end
       /\ schedule[i].end <= last.args.day_after_sowing
       /\ last.args.day_after_sowing < schedule[j].start
       /\ schedule[j].start < schedule[j].end

\* C3: every result has target_moisture_pct <= 90.0, as emitted (tenths).
C3_TargetCeiling == HasResult => last.out.res[1].Target_Moisture <= 900

\* a result whose uncapped target exceeded 90
C3_Witness ==
  /\ HasResult
  /\ last.out.res[1].Target_Moisture = 900
  /\ RawTarget(LastStage, last.args.t_current,
               estimate_solar_radiation(last.doy, last.args.t_max_forecast,
                                        last.args.t_min_forecast).et0) > 9000

\* the target of the last call before rounding, in hundredths
LastFinalTarget ==
  FinalTarget(LastStage, last.args.t_current,
              estimate_solar_radiation(last.doy, last.args.t_max_forecast,
                                       last.args.t_min_forecast).et0)

\* C4 (as stated): emitted water_required_mm >= 0, and it is 0 exactly when
\* the emitted current_moisture_pct >= the emitted target_moisture_pct.
C4_WaterZeroIffAtTarget ==
  HasResult =>
    LET r == last.out.res[1] IN
    /\ r.Water_Required_mm >= 0
    /\ (r.Water_Required_mm = 0)
         <=> (r.Current_Moisture >= 10 * r.Target_Moisture)

\* C4 (amended): emitted water_required_mm >= 0 whenever the stage's root
\* depth is >= 0; it is 0 whenever current moisture >= the target before
\* rounding; below that target it is the deficit volume rounded to two
\* decimals, hence positive once the volume exceeds 0.005 mm.
C4_WaterSignUnrounded ==
  HasResult =>
    LET r == last.out.res[1]
        vol == (LastFinalTarget - r.Current_Moisture)
                 * (SOIL_FC - SOIL_WP) * LastStage.root_depth
    IN  /\ LastStage.root_depth >= 0 => r.Water_Required_mm >= 0
        /\ r.Current_Moisture >= LastFinalTarget => r.Water_Required_mm = 0
        /\ (r.Current_Moisture < LastFinalTarget /\ vol > 5000)
             => r.Water_Required_mm > 0

\* a positive deficit on positive roots whose volume rounds to 0.00
C4_Witness ==
  /\ HasResult
  /\ LastStage.root_depth > 0
  /\ last.out.res[1].Current_Moisture < LastFinalTarget
  /\ last.out.res[1].Current_Moisture < 10 * last.out.res[1].Target_Moisture
  /\ last.out.res[1].Water_Required_mm = 0

\* C5: with forecast max below forecast min the estimate raises (ValueError
\* from math.sqrt) and returns no ET0; the call that reaches it ends in that
\* error, and no call with such a pair produces a result.
C5_InvalidForecastRaises ==
  /\ \A d \in DaysOfYear, f \in Forecasts :
       f[1] < f[2] => estimate_solar_radiation(d, f[1], f[2]).err = "ValueError"
  /\ (last.called /\ last.args.t_max_forecast < last.args.t_min_forecast) =>
       /\ last.out.res = <<>>
       /\ last.out.err # "none"
       /\ Covering(schedule, last.args.day_after_sowing) # {}
            => last.out.err = "ValueError"

\* a call that found its stage and was given max below min
C5_Witness ==
  /\ last.called
  /\ last.args.t_max_forecast < last.args.t_min_forecast
  /\ Covering(schedule, last.args.day_after_sowing) # {}
  /\ last.out.err = "ValueError"

\* a range token of exactly two numbers around the delimiter, then its unit
TwoNumbers(tok, unit) ==
  \E a, b \in DOMAIN NumVal : tok = <<a, "-", b>> \o unit

WellFormedEntry(row) ==
  /\ TwoNumbers(row.Period_Days, <<>>)
  /\ TwoNumbers(row.Temp_Range_C, <<"°C">>)
  /\ TwoNumbers(row.Moisture_Target_Range, <<"%">>)
  /\ NumVal[row.Period_Days[1]] < NumVal[row.Period_Days[3]]

\* C6: building the table fails, yielding no table, if any entry has a range
\* token that is not exactly two numbers or has day_start >= day_end; a table
\* is produced only when every entry passes both checks.
C6_BuildRejectsMalformed ==
  phase # "start" =>
    /\ (\E i \in DOMAIN entries : ~WellFormedEntry(entries[i]))
         => (loadErr # "none" /\ schedule = <<>>)
    /\ schedule # <<>> => \A i \in DOMAIN entries : WellFormedEntry(entries[i])

\* C7: a failure of table construction is surfaced and aborts startup; no
\* decision cycle runs against a table whose construction failed.
C7_LoadFailureAborts ==
  loadErr # "none" => (phase = "aborted" /\ ~last.called)

\* C8: two calls with the same table, configuration and reading arguments
\* return identical results, whatever the wall-clock date of each call.
C8_SameArgumentsSameResult ==
  [][(last.called /\ last'.called /\ last'.args = last.args)
       => last'.out = last.out]_vars

\* C9: when several calls run concurrently on the same table, in any
\* interleaving of their steps, each call's outcome equals the outcome of
\* the call run alone with the same arguments (and the date it read), and a
\* step of one call leaves the frames of the other calls as they were.
C9_ConcurrentCallsIsolated ==
  /\ [](\A i \in Cycles :
          cyc[i].pc = "done" =>
            cyc[i].out = calculate_3hr_update(variant, schedule,
                                              cyc[i].args, cyc[i].doy))
  /\ [][\A i, j \in Cycles :
          (i # j /\ cyc'[i] # cyc[i]) => cyc'[j] = cyc[j]]_vars

\* one call has returned a result while another, for a different day, is
\* between its lookup and its decision
C9_Witness ==
  \E i, j \in Cycles :
    /\ cyc[i].pc = "done" /\ cyc[i].out.res # <<>>
    /\ cyc[j].pc = "decide"
    /\ cyc[j].args.day_after_sowing # cyc[i].args.day_after_sowing
    /\ cyc[j].stage # <<>>

\* C10: once built, the schedule table is left unchanged by every call,
\* whether it returns a result or raises.
C10_TableUnchanged == [][phase = "ready" => schedule' = schedule]_vars

\* a call that raised and left a non-empty table behind
C10_Witness ==
  /\ phase = "ready"
  /\ schedule # <<>>
  /\ last.called
  /\ last.out.err # "none"

\* floor(a * a / 10^4) without leaving 32 bits
SqDiv4(a) ==
  LET ah == a \div 100
      al == a % 100
  IN  ah * ah + (200 * ah * al + al * al) \div 10000

\* 0.0023 * Ra * (Tmean + 17.8) with Tmean = (Tmax + Tmin) / 2, in units of
\* 5 millionths of a mm per day
RefCoefficient(doy, t_max, t_min) ==
  MulDiv4(MulDiv4(ExtraterrestrialRadiation(doy), t_max + t_min + 3560), 23)

\* the square of 0.0023 * Ra * (Tmean + 17.8) * sqrt(Tmax - Tmin), over 10^4
RefSquare(doy, t_max, t_min) ==
  MulDiv4(SqDiv4(RefCoefficient(doy, t_max, t_min)), (t_max - t_min) * 100)

\* e hundredths is the formula's value rounded to 2 decimals: the squares of
\* e - 0.005 and e + 0.005 enclose the square of the formula, up to the
\* last digits of the fixed-point arithmetic
IsRoundedFormula(e, doy, t_max, t_min) ==
  LET r == RefSquare(doy, t_max, t_min)
      slack == r \div 100000 + 2
  IN  /\ e >= 0
      /\ e > 0 => SqDiv4(2000 * e - 1000) <= r + slack
      /\ r <= SqDiv4(2000 * e + 1000) + slack

\* C11: for every day of the year and every forecast pair with max >= min,
\* estimate returns 0.0023*Ra*(Tmean+17.8)*sqrt(Tmax-Tmin) rounded to 2
\* decimals, Tmean = (Tmax+Tmin)/2; the result is 0 when Tmax = Tmin.
C11_EstimateIsFormula ==
  (est.called /\ est.t_max >= est.t_min) =>
     /\ est.out.err = "none"
     /\ IsRoundedFormula(est.out.et0, est.doy, est.t_max, est.t_min)
     /\ est.t_max = est.t_min => est.out.et0 = 0

\* the estimator returned 0 for an equal pair
C11_Witness ==
  /\ est.called
  /\ est.t_max = est.t_min
  /\ est.out.err = "none"
  /\ est.out.et0 = 0

\* the stage of the table matched for the day of the last call
MatchedStage ==
  schedule[FirstOf(Covering(schedule, last.args.day_after_sowing))]

\* the ET0 of the last call, in hundredths
LastEt0 ==
  estimate_solar_radiation(last.doy, last.args.t_max_forecast,
                           last.args.t_min_forecast).et0

\* min(90.0, base + 2.0 * heat_overshoot + et_buffer), in hundredths
RefTarget(sd, t_current, et0) ==
  LET heat_overshoot == IF t_current > sd.temp_max_ref
                        THEN t_current - sd.temp_max_ref ELSE 0
      et_buffer == IF et0 > 550 THEN 500 ELSE 0
      raw == sd.theta_base + 2 * heat_overshoot + et_buffer
  IN  IF raw > 9000 THEN 9000 ELSE raw

\* C12: in every successful cycle the moisture target is
\* min(90.0, moisture_target_base + 2.0*heat_overshoot + et_buffer) with
\* heat_overshoot = max(0, current_temperature - temp_max_reference) of the
\* looked-up stage and et_buffer 5.0 when et0 > 5.5 strictly, else 0.0 (the
\* returned Target_Moisture is this target rounded to one decimal).
C12_TargetIsFormula ==
  HasResult =>
    LET ref == RefTarget(MatchedStage, last.args.t_current, LastEt0) IN
    /\ LastFinalTarget = ref
    /\ last.out.res[1].Target_Moisture = RoundHalfEven(ref, 10)
    /\ "Solar_Demand_ET0" \in DOMAIN last.out.res[1]
         => last.out.res[1].Solar_Demand_ET0 = LastEt0

\* a cycle with ET0 exactly 5.50 and a target that carries no buffer
C12_Witness ==
  /\ HasResult
  /\ variant = "local"
  /\ last.out.res[1].Solar_Demand_ET0 = 550
  /\ last.args.t_current > MatchedStage.temp_max_ref
  /\ MatchedStage.theta_base
       + 2 * (last.args.t_current - MatchedStage.temp_max_ref) < 9000
  /\ last.out.res[1].Target_Moisture
       = RoundHalfEven(MatchedStage.theta_base
                         + 2 * (last.args.t_current
                                  - MatchedStage.temp_max_ref), 10)

\* ((target - current)/100) * ((field_capacity - wilting_point)/100)
\* * root_depth_mm below the target and 0 otherwise, in millionths of a mm
RefWater(sd, target, current) ==
  IF current < target
  THEN (target - current) * (SOIL_FC - SOIL_WP) * sd.root_depth
  ELSE 0

\* C13: in every successful cycle with current moisture below the target,
\* water_required_mm is ((target - current)/100) * ((fc - wp)/100) *
\* root_depth_mm of the stage matched for the reading's day, otherwise 0
\* (the returned Water_Required_mm is this volume rounded to two decimals).
C13_WaterIsFormula ==
  HasResult =>
    LET ref == RefWater(MatchedStage, LastFinalTarget,
                        last.args.moisture_current)
    IN  /\ WaterMm(LastStage, LastFinalTarget, last.args.moisture_current) = ref
        /\ last.out.res[1].Water_Required_mm = RoundHalfEven(ref, 10000)

\* water was required on a table whose other stage has another root depth
C13_Witness ==
  /\ HasResult
  /\ last.out.res[1].Water_Required_mm > 0
  /\ last.args.moisture_current < LastFinalTarget
  /\ \E j \in DOMAIN schedule :
       schedule[j].root_depth # MatchedStage.root_depth

\* C14: every result carries a condition field, HeatStress exactly when
\* current_temperature > temp_max_reference of the looked-up stage and
\* Normal otherwise.
C14_ConditionField ==
  HasResult =>
    /\ "Condition" \in DOMAIN last.out.res[1]
    /\ last.out.res[1].Condition =
         IF last.args.t_current > MatchedStage.temp_max_ref
         THEN "Heat Stress" ELSE "Normal"

\* C15: for every sequence of input entries, in any order, the table built
\* holds the stages sorted ascending by day_start.
C15_TableSorted ==
  phase = "ready" =>
    \A i, j \in DOMAIN schedule :
      i < j => schedule[i].start <= schedule[j].start

\* C16: when the table is built, it has exactly one stage per input entry,
\* and for every well-formed entry the stage has moisture_target_base equal
\* to the mean of the two moisture bounds, temp_max_reference equal to the
\* upper temperature bound, and day_start/day_end equal to the day bounds.
C16_StageFromEntry ==
  (phase = "ready" /\ loadErr = "none") =>
    /\ Len(schedule) = Len(entries)
    /\ \A i \in DOMAIN entries :
         WellFormedEntry(entries[i]) =>
           /\ 2 * schedule[i].theta_base
                = 100 * (NumVal[entries[i].Moisture_Target_Range[1]]
                           + NumVal[entries[i].Moisture_Target_Range[3]])
           /\ schedule[i].temp_max_ref
                = 100 * NumVal[entries[i].Temp_Range_C[3]]
           /\ schedule[i].start = NumVal[entries[i].Period_Days[1]]
           /\ schedule[i].end = NumVal[entries[i].Period_Days[3]]
           /\ schedule[i].stage = entries[i].Stage

\* a table of two stages built from two well-formed entries
C16_Witness ==
  /\ phase = "ready"
  /\ Len(schedule) = 2
  /\ \A i \in DOMAIN entries : WellFormedEntry(entries[i])
  /\ entries[1] # entries[2]

\* the outputs both copies return
CommonOutputs(r) ==
  [Stage |-> r.Stage, Target_Moisture |-> r.Target_Moisture,
   Current_Moisture |-> r.Current_Moisture,
   Water_Required_mm |-> r.Water_Required_mm]

\* a whole run of copy v on the rows: the step it fails at, if any, and the
\* common outputs it returns
RunOf(v, rows, a, doy) ==
  LET l == IF v = "local" THEN LoadScheduleLocal(rows)
           ELSE LoadScheduleFirebase(rows)
  IN  IF l.raised # "none" THEN [step |-> "construct", common |-> <<>>]
      ELSE LET o == calculate_3hr_update(v, l.table, a, doy) IN
           IF o.err = "none"
           THEN [step |-> "none", common |-> <<CommonOutputs(o.res[1])>>]
           ELSE IF Lookup(l.table, a.day_after_sowing).err # "none"
           THEN [step |-> "lookup", common |-> <<>>]
           ELSE [step |-> "estimate", common |-> <<>>]

OtherVariant == CHOOSE v \in Variants : v # variant

\* C17: for the same reference entries, reading and day of the year, the two
\* copies of the engine either fail at the same step or return the same
\* Stage, Target_Moisture, Current_Moisture and Water_Required_mm, also when
\* table construction hits a malformed entry.
C17_CopiesEquivalent ==
  /\ phase = "aborted" =>
       \A a \in Readings :
         RunOf(OtherVariant, entries, a, clock).step = "construct"
  /\ last.called =>
       RunOf(OtherVariant, entries, last.args, last.doy)
         = IF last.out.err = "none"
           THEN [step |-> "none",
                 common |-> <<CommonOutputs(last.out.res[1])>>]
           ELSE IF Lookup(schedule, last.args.day_after_sowing).err # "none"
           THEN [step |-> "lookup", common |-> <<>>]
           ELSE [step |-> "estimate", common |-> <<>>]

\* C18: in the run of the __main__ block of logic_core_firebase.py,
\* expectedWater is written at most once, only after Node1 returned data and
\* a decision was computed from it, and the value written is that decision's
\* Target_Moisture (<= 90); when Node1 does not exist or construction, lookup
\* or estimate fails, the run ends without a write.
C18_WriteOnceAfterDecision ==
  /\ Len(main.written) <= 1
  /\ main.written # <<>> =>
       /\ main.node1.exists
       /\ HasResult
       /\ last.args.t_current = main.soil_temp
       /\ last.args.moisture_current = main.soil_moist
       /\ main.written[1] = last.out.res[1].Target_Moisture
       /\ main.written[1] <= 900
  /\ (\/ ~main.node1.exists
      \/ loadErr # "none"
      \/ (last.called /\ last.out.err # "none")
      \/ main.pc = "failed") => main.written = <<>>
  /\ main.pc = "done" => Len(main.written) = 1

\* the run wrote the target of a decision made from the Node1 data
C18_Witness ==
  /\ main.pc = "done"
  /\ main.node1.exists /\ main.node1.has_temp /\ main.node1.has_moist
  /\ main.written = <<last.out.res[1].Target_Moisture>>

====
